---- MODULE Spec2Model ----
(***************************************************************************)
(* Model of scripts/update_assets.py: the per-asset synchronisation loop   *)
(* that fetches daily OHLCV bars from the provider and merges them into    *)
(* one CSV file per asset.                                                 *)
(*                                                                         *)
(* Representation.                                                         *)
(*   - A day is a natural number (1 is the first day of the provider's     *)
(*     history).  A provider timestamp is [day, tz]: midnight of a day in  *)
(*     the exchange's timezone.                                            *)
(*   - A float is an integer count of 10^-9 units, so that a value can     *)
(*     carry one more decimal digit than the "%.8f" format keeps.          *)
(*   - A CSV row holds text: the date as written and the number as the     *)
(*     count of 10^-8 units that "%.8f" prints.                            *)
(*   - Of the five numeric columns only Close is kept; the other four are  *)
(*     selected, formatted and merged by the same expressions.             *)
(***************************************************************************)
EXTENDS Integers, Sequences, FiniteSets, TLC

\* ---------------------------------------------------------------- bounds
MaxDay == 3
MaxRows == 2
MaxSameDate == 2

\* ------------------------------------------------------- program constants
\* TICKERS, in the dict's iteration order (the first two of its four entries).
TICKERS == <<"btc", "eth">>
Names == {TICKERS[k] : k \in 1..Len(TICKERS)}

\* The part of the "2d" period: the trailing window is the last two days.
WindowDays == 2

Procs == {1, 2}
Days == 1..MaxDay
\* Provider prices in 10^-9 units: one that "%.8f" keeps exactly and one it rounds.
Values == {20, 37}

VARIABLES
    now,        \* the current day
    prov,       \* prov[a]: the provider's table for asset a, a sequence of [ts, Close]
    files,      \* files[a]: [exists, rows], the CSV file data/<a>.csv
    pc,         \* pc[i]: where instance i of the script is
    idx,        \* idx[i]: position of instance i in TICKERS
    period,     \* period[i]: the local variable period
    df_new,     \* df_new[i]: the local variable df_new
    combined,   \* combined[i]: the local variable combined
    out,        \* out[i]: the lines instance i printed in its current run
    snap,       \* snap[i]: the files as they were when instance i's run started
    fresh,      \* fresh[a]: a was synchronised and the provider published nothing since
    stale,      \* stale[i]: another instance wrote the file since i read or checked it
    lost        \* whether a completed write removed a row that was in the file, and how

vars == <<now, prov, files, pc, idx, period, df_new, combined, out, snap, fresh, stale, lost>>

\* ----------------------------------------------------------- pure helpers
RECURSIVE SelectSeq2(_, _)
\* s[mask]: the rows of s whose index is in keep, in order.
SelectSeq2(s, keep) ==
    IF s = <<>> THEN <<>>
    ELSE LET rest == SelectSeq2(Tail(s), {k - 1 : k \in keep \ {1}})
         IN IF 1 \in keep THEN <<Head(s)>> \o rest ELSE rest

Dates(rows) == {rows[k].Date : k \in 1..Len(rows)}

\* Index.tz_localize(None): the wall-clock timestamp without its timezone.
tz_localize_None(ts) == ts.day

\* A format that cuts the digits after the eighth instead of rounding.
Truncate8(v) == v \div 10

\* float_format="%.8f": the nearest count of 10^-8 units.
Format8(v) == (v + 5) \div 10

\* read_csv's float parser on a "%.8f" text.
ParseFloat(t) == t * 10

\* yf.Ticker(sym).history(period)[[...]] followed by the index normalisation.
HistoryWindow(table, per, today) ==
    IF per = "max" THEN 1..Len(table)
    ELSE {k \in 1..Len(table) : table[k].ts.day > today - WindowDays}

History(table, per, today) ==
    LET sel == SelectSeq2(table, HistoryWindow(table, per, today))
    IN [k \in 1..Len(sel) |-> [Date |-> tz_localize_None(sel[k].ts), Close |-> sel[k].Close]]

\* The variant of the script that asks for two days on the first run as well.
PeriodAlways2d(exists) == "2d"

\* period = "max" if not csv_path.exists() else "2d"
PeriodFor(exists) == IF exists THEN "2d" ELSE "max"

\* pd.read_csv(csv_path, parse_dates=["Date"], index_col="Date")
read_csv(rows) == [k \in 1..Len(rows) |-> [Date |-> rows[k].Date, Close |-> ParseFloat(rows[k].Close)]]

\* df.to_csv(csv_path, float_format="%.8f"): the rows as text.
to_csv(df) == [k \in 1..Len(df) |-> [Date |-> df[k].Date, Close |-> Format8(df[k].Close)]]

\* A merge without the membership filter.
KeepAll(new, old) == new

\* df_new[~df_new.index.isin(df_old.index)]
FilterNew(new, old) == SelectSeq2(new, {k \in 1..Len(new) : new[k].Date \notin Dates(old)})

\* A concatenation with its operands swapped.
ConcatNewFirst(old, new) == new \o old

\* A merge that writes the fetched rows only.
ConcatDropOld(old, new) == new

\* pd.concat([df_old, df_new])
Concat(old, new) == old \o new

Asset(i) == TICKERS[idx[i]]

UpToDateLine(name) == [name |-> name, kind |-> "up-to-date", new |-> 0, total |-> 0]
WroteLine(name, n, m) == [name |-> name, kind |-> "wrote", new |-> n, total |-> m]

\* ------------------------------------------------------------------ Init
NoFile == [exists |-> FALSE, rows |-> <<>>]

Init ==
    /\ now = 1
    /\ prov = [a \in Names |-> <<>>]
    /\ files = [a \in Names |-> NoFile]
    /\ pc = [i \in Procs |-> "idle"]
    /\ idx = [i \in Procs |-> 1]
    /\ period = [i \in Procs |-> "max"]
    /\ df_new = [i \in Procs |-> <<>>]
    /\ combined = [i \in Procs |-> <<>>]
    /\ out = [i \in Procs |-> <<>>]
    /\ snap = [i \in Procs |-> files]
    /\ fresh = [a \in Names |-> FALSE]
    /\ stale = [i \in Procs |-> FALSE]
    /\ lost = "no"

\* ------------------------------------------------------ the provider (world)
\* The provider is outside the script.  Its table for an asset is in timestamp
\* order; history("max") returns all of it and history("2d") the rows of the
\* last WindowDays days.  The script relies on nothing else, so nothing else is
\* assumed: a bar may appear late (for a day before the newest one), a value
\* may be revised, and a date may come more than once, up to MaxSameDate times.
\* A change of the table between a fetch and the write that follows it has the
\* effect of the same change after the write, so with one instance running the
\* provider moves only while no fetched table is pending.
\* No instance holds a fetched table it has not yet merged, and none has ended
\* without its process having exited.
Quiescent == \A i \in Procs : pc[i] \in {"idle", "select", "fetch"}

CountDate(table, d) == Cardinality({k \in 1..Len(table) : table[k].ts.day = d})

\* The table with one more row, kept in timestamp order.
InsertRow(table, row) ==
    LET before == SelectSeq2(table, {k \in 1..Len(table) : table[k].ts.day <= row.ts.day})
        after == SelectSeq2(table, {k \in 1..Len(table) : table[k].ts.day > row.ts.day})
    IN before \o <<row>> \o after

RECURSIVE SumLen(_)
SumLen(S) == IF S = {} THEN 0 ELSE LET a == CHOOSE x \in S : TRUE IN Len(prov[a]) + SumLen(S \ {a})
\* The number of bars the provider holds, over all assets.
TotalRows == SumLen(Names)

Tick ==
    /\ now < MaxDay
    /\ now' = now + 1
    /\ UNCHANGED <<prov, files, pc, idx, period, df_new, combined, out, snap, fresh, stale, lost>>

Publish(a, d, v) ==
    /\ d <= now
    /\ TotalRows < MaxRows
    /\ CountDate(prov[a], d) < MaxSameDate
    /\ prov' = [prov EXCEPT ![a] = InsertRow(@, [ts |-> [day |-> d, tz |-> "UTC"], Close |-> v])]
    /\ fresh' = [fresh EXCEPT ![a] = FALSE]
    /\ UNCHANGED <<now, files, pc, idx, period, df_new, combined, out, snap, stale, lost>>

Revise(a, k, v) ==
    /\ k \in 1..Len(prov[a])
    /\ prov[a][k].Close # v
    /\ prov' = [prov EXCEPT ![a][k].Close = v]
    /\ UNCHANGED <<now, files, pc, idx, period, df_new, combined, out, snap, fresh, stale, lost>>

\* ------------------------------------------------------------ the script
\* Running the program: DATA_DIR.mkdir(exist_ok=True), then the loop starts.
Start(i) ==
    /\ pc[i] = "idle"
    /\ pc' = [pc EXCEPT ![i] = "select"]
    /\ snap' = [snap EXCEPT ![i] = files]
    /\ UNCHANGED <<now, prov, files, idx, period, df_new, combined, out, fresh, stale, lost>>

\* The process ends, after the last iteration or on the exception: its locals
\* and what it printed are gone.
Exit(i) ==
    /\ pc[i] \in {"done", "aborted"}
    /\ pc' = [pc EXCEPT ![i] = "idle"]
    /\ idx' = [idx EXCEPT ![i] = 1]
    /\ out' = [out EXCEPT ![i] = <<>>]
    /\ snap' = [snap EXCEPT ![i] = [a \in Names |-> NoFile]]
    /\ period' = [period EXCEPT ![i] = "max"]
    /\ df_new' = [df_new EXCEPT ![i] = <<>>]
    /\ combined' = [combined EXCEPT ![i] = <<>>]
    /\ stale' = [stale EXCEPT ![i] = FALSE]
    /\ UNCHANGED <<now, prov, files, fresh, lost>>

\* The loop moves to the next entry of TICKERS, or ends.
NextPc(i) == IF idx[i] = Len(TICKERS) THEN "done" ELSE "select"
NextIdx(i) == IF idx[i] = Len(TICKERS) THEN idx[i] ELSE idx[i] + 1

\* The loop on a failure that leaves asset k unfinished: it goes on with k + 1.
SkipAsset(i) == [pc |-> NextPc(i), idx |-> NextIdx(i)]

\* An exception nobody catches ends the run where it is.
OnFailure(i) == [pc |-> "aborted", idx |-> idx[i]]

SelectPeriod(i) ==
    /\ pc[i] = "select"
    /\ period' = [period EXCEPT ![i] = PeriodFor(files[Asset(i)].exists)]
    /\ pc' = [pc EXCEPT ![i] = "fetch"]
    /\ UNCHANGED <<now, prov, files, idx, df_new, combined, out, snap, fresh, stale, lost>>

Fetch(i) ==
    /\ pc[i] = "fetch"
    /\ df_new' = [df_new EXCEPT ![i] = History(prov[Asset(i)], period[i], now)]
    /\ pc' = [pc EXCEPT ![i] = "reconcile"]
    /\ UNCHANGED <<now, prov, files, idx, period, combined, out, snap, fresh, stale, lost>>

FetchFail(i) ==
    /\ pc[i] = "fetch"
    /\ pc' = [pc EXCEPT ![i] = OnFailure(i).pc]
    /\ idx' = [idx EXCEPT ![i] = OnFailure(i).idx]
    /\ UNCHANGED <<now, prov, files, period, df_new, combined, out, snap, fresh, stale, lost>>

Reconcile(i) ==
    /\ pc[i] = "reconcile"
    /\ LET a == Asset(i)
           df_old == read_csv(files[a].rows)
           new == FilterNew(df_new[i], df_old)
       IN IF files[a].exists
          THEN IF new = <<>>
               THEN /\ out' = [out EXCEPT ![i] = Append(@, UpToDateLine(a))]
                    /\ pc' = [pc EXCEPT ![i] = NextPc(i)]
                    /\ idx' = [idx EXCEPT ![i] = NextIdx(i)]
                    /\ df_new' = [df_new EXCEPT ![i] = <<>>]
                    /\ period' = [period EXCEPT ![i] = "max"]
                    /\ fresh' = [fresh EXCEPT ![a] = TRUE]
                    /\ UNCHANGED combined
               ELSE /\ df_new' = [df_new EXCEPT ![i] = new]
                    /\ combined' = [combined EXCEPT ![i] = Concat(df_old, new)]
                    /\ pc' = [pc EXCEPT ![i] = "write"]
                    /\ UNCHANGED <<out, idx, fresh, period>>
          ELSE /\ combined' = [combined EXCEPT ![i] = df_new[i]]
               /\ pc' = [pc EXCEPT ![i] = "write"]
               /\ UNCHANGED <<out, idx, df_new, fresh, period>>
    /\ stale' = [stale EXCEPT ![i] = FALSE]
    /\ UNCHANGED <<now, prov, files, snap, lost>>

ReadFail(i) ==
    /\ pc[i] = "reconcile"
    /\ files[Asset(i)].exists
    /\ pc' = [pc EXCEPT ![i] = OnFailure(i).pc]
    /\ idx' = [idx EXCEPT ![i] = OnFailure(i).idx]
    /\ UNCHANGED <<now, prov, files, period, df_new, combined, out, snap, fresh, stale, lost>>

\* Some row of the file as it was is no row of the text that replaces it.
DropsRow(was, text) == \E k \in 1..Len(was) : \A m \in 1..Len(text) : text[m] # was[k]

Write(i) ==
    /\ pc[i] = "write"
    /\ LET a == Asset(i)
           text == to_csv(combined[i])
       IN /\ files' = [files EXCEPT ![a] = [exists |-> TRUE, rows |-> text]]
          /\ out' = [out EXCEPT ![i] = Append(@, WroteLine(a, Len(df_new[i]), Len(combined[i])))]
          /\ fresh' = [fresh EXCEPT ![a] = TRUE]
          /\ lost' = IF lost = "no" /\ DropsRow(files[a].rows, text)
                     THEN (IF stale[i] THEN "raced" ELSE "sequential")
                     ELSE lost
          /\ stale' = [j \in Procs |->
                          IF j # i /\ pc[j] = "write" /\ Asset(j) = a THEN TRUE ELSE stale[j]]
    /\ pc' = [pc EXCEPT ![i] = NextPc(i)]
    /\ idx' = [idx EXCEPT ![i] = NextIdx(i)]
    /\ period' = [period EXCEPT ![i] = "max"]
    /\ df_new' = [df_new EXCEPT ![i] = <<>>]
    /\ combined' = [combined EXCEPT ![i] = <<>>]
    /\ UNCHANGED <<now, prov, snap>>

\* to_csv opens the file for writing, which empties it, and fails before the
\* last row is out: the rows written so far stay on disk.
WriteFail(i, n) ==
    /\ pc[i] = "write"
    /\ n < Len(combined[i])
    /\ LET a == Asset(i)
       IN /\ files' = [files EXCEPT ![a] = [exists |-> TRUE, rows |-> SubSeq(to_csv(combined[i]), 1, n)]]
          /\ fresh' = [fresh EXCEPT ![a] = FALSE]
    /\ pc' = [pc EXCEPT ![i] = OnFailure(i).pc]
    /\ idx' = [idx EXCEPT ![i] = OnFailure(i).idx]
    /\ UNCHANGED <<now, prov, period, df_new, combined, out, snap, stale, lost>>

\* ---------------------------------------------------------- specifications
World ==
    \/ Tick
    \/ \E a \in Names, d \in Days, v \in Values : Publish(a, d, v)
    \/ \E a \in Names, k \in 1..MaxRows, v \in Values : Revise(a, k, v)

Run(i) ==
    \/ Start(i)
    \/ SelectPeriod(i)
    \/ Fetch(i)
    \/ Reconcile(i)
    \/ Write(i)
    \/ Exit(i)

Fail(i) ==
    \/ FetchFail(i)
    \/ ReadFail(i)
    \/ \E n \in 0..MaxRows : WriteFail(i, n)

\* One instance of the script at a time, with failures.
Next ==
    \/ (Quiescent /\ World)
    \/ Run(1)
    \/ Fail(1)

Spec == Init /\ [][Next]_vars

\* One instance of the script at a time, every run of it running to its end.
NextOk ==
    \/ (Quiescent /\ World)
    \/ Run(1)

SpecOk == Init /\ [][NextOk]_vars

\* Two instances of the script, each run once, no coordination, no failures;
\* the provider publishes bars of the first asset while they run.
NextConc ==
    \/ Tick
    \/ \E d \in Days, v \in Values : Publish(TICKERS[1], d, v)
    \/ \E i \in Procs : Start(i)
    \/ \E i \in Procs : SelectPeriod(i)
    \/ \E i \in Procs : Fetch(i)
    \/ \E i \in Procs : Reconcile(i)
    \/ \E i \in Procs : Write(i)

SpecConc == Init /\ [][NextConc]_vars

\* ------------------------------------------------------------------ claims
Rows(a) == files[a].rows
Completed(i) == pc[i] = "write" /\ pc'[i] \in {"select", "done"}

\* C1: for every asset, after any number of runs and with any provider
\* responses, no two bars of the stored history have the same date.
C1_NoDuplicateDates ==
    \A a \in Names : \A k, m \in 1..Len(Rows(a)) : k # m => Rows(a)[k].Date # Rows(a)[m].Date

\* C2: a run that finds stored history keeps every stored row in place with its
\* text unchanged, and adds exactly the fetched bars whose date is not stored,
\* also when the provider returns other values for a stored date.
C2_AppendOnly ==
    [][\A i \in Procs :
         (Completed(i) /\ files[Asset(i)].exists) =>
            LET a == Asset(i)
                was == files[a].rows
                txt == files'[a].rows
                fetched == History(prov[a], "2d", now)
                added == {k \in 1..Len(txt) : k > Len(was)}
            IN /\ Len(txt) >= Len(was)
               /\ SubSeq(txt, 1, Len(was)) = was
               /\ \A k \in added :
                     /\ txt[k].Date \notin Dates(was)
                     /\ \E m \in 1..Len(fetched) :
                           /\ fetched[m].Date = txt[k].Date
                           /\ (ParseFloat(txt[k].Close) - fetched[m].Close) \in -5..5
               /\ \A m \in 1..Len(fetched) :
                     fetched[m].Date \notin Dates(was) => \E k \in added : txt[k].Date = fetched[m].Date
      ]_vars

\* C2's case: the merge of a fetch that holds a stored date with another value
\* and a date that is not stored; the write is the next step.
C2_Witness ==
    \E i \in Procs :
       /\ pc[i] = "write"
       /\ files[Asset(i)].exists
       /\ Len(combined[i]) > Len(Rows(Asset(i)))
       /\ \E k \in 1..Len(Rows(Asset(i))), m \in 1..Len(prov[Asset(i)]) :
             /\ prov[Asset(i)][m].ts.day = Rows(Asset(i))[k].Date
             /\ prov[Asset(i)][m].ts.day > now - WindowDays
             /\ (ParseFloat(Rows(Asset(i))[k].Close) - prov[Asset(i)][m].Close) \notin -5..5

\* C3: a run of an asset that follows a completed run of it, the provider having
\* published nothing in between, writes nothing, leaves every file as it is and
\* reports up-to-date.
C3_Idempotent ==
    [][\A i \in Procs :
         (pc[i] = "reconcile" /\ fresh[Asset(i)] /\ pc'[i] \notin {"reconcile", "aborted"}) =>
            /\ files' = files
            /\ pc'[i] \in {"select", "done"}
            /\ out'[i] = Append(out[i], UpToDateLine(Asset(i)))
      ]_vars

\* C3's case: the second run has fetched bars, all of them stored by the first.
C3_Witness ==
    \E i \in Procs :
       /\ pc[i] = "reconcile"
       /\ fresh[Asset(i)]
       /\ df_new[i] # <<>>
       /\ Rows(Asset(i)) # <<>>

\* C4 as stated: a first run leaves exactly the provider's full history in the
\* file, in order and with unmodified values, and reports that many new rows.
C4_FirstRunVerbatim ==
    [][\A i \in Procs :
         (Completed(i) /\ ~files[Asset(i)].exists) =>
            LET a == Asset(i)
                txt == files'[a].rows
            IN /\ files'[a].exists
               /\ Len(txt) = Len(prov[a])
               /\ \A k \in 1..Len(txt) :
                     /\ txt[k].Date = prov[a][k].ts.day
                     /\ ParseFloat(txt[k].Close) = prov[a][k].Close
               /\ out'[i] = Append(out[i], WroteLine(a, Len(prov[a]), Len(prov[a])))
      ]_vars

\* C4 as amended: a first run leaves the provider's full history in the file, in
\* order, each value rounded to the nearest multiple of 10^-8, and reports that
\* many new rows.
C4_FirstRunRounded ==
    [][\A i \in Procs :
         (Completed(i) /\ ~files[Asset(i)].exists) =>
            LET a == Asset(i)
                txt == files'[a].rows
            IN /\ files'[a].exists
               /\ Len(txt) = Len(prov[a])
               /\ \A k \in 1..Len(txt) :
                     /\ txt[k].Date = prov[a][k].ts.day
                     /\ (ParseFloat(txt[k].Close) - prov[a][k].Close) \in -5..5
               /\ out'[i] = Append(out[i], WroteLine(a, Len(prov[a]), Len(prov[a])))
      ]_vars

\* C4's case: a finished run that found no file for the asset and wrote two or
\* more bars, one of them with a ninth decimal digit.
C4_Witness ==
    \E i \in Procs, a \in Names :
       /\ pc[i] = "done"
       /\ ~snap[i][a].exists
       /\ files[a].exists
       /\ Len(Rows(a)) >= 2
       /\ \E k \in 1..Len(out[i]) : out[i][k] = WroteLine(a, Len(Rows(a)), Len(Rows(a)))
       /\ Len(prov[a]) = Len(Rows(a))
       /\ \E k \in 1..Len(Rows(a)) : ParseFloat(Rows(a)[k].Close) # prov[a][k].Close

\* C5: the rows of every stored history are in date order (sorting them by date
\* gives the file's row order).  This is the claim's weaker reading, which lets
\* equal dates follow each other; the strict one fails wherever this one does.
C5_MonotonicOrder ==
    \A a \in Names : \A k \in 1..Len(Rows(a)) :
       k < Len(Rows(a)) => Rows(a)[k].Date <= Rows(a)[k + 1].Date

\* C6: after a completed run of an asset, the stored history has a bar for every
\* date the provider has a bar for, whatever the earlier runs and the time
\* between them.
C6_Complete ==
    \A a \in Names : fresh[a] =>
       \A k \in 1..Len(prov[a]) : prov[a][k].ts.day \in Dates(Rows(a))

\* C7: the provider is asked for the full history exactly when the asset has no
\* file, and for the two-day trailing window exactly when it has one; the table
\* fetched is the one that request gives.
C7_FetchWindow ==
    \A i \in Procs :
       LET a == Asset(i)
           want == IF files[a].exists
                   THEN {k \in 1..Len(prov[a]) : prov[a][k].ts.day \in {now - 1, now}}
                   ELSE 1..Len(prov[a])
       IN /\ pc[i] = "fetch" => (period[i] = "max" <=> ~files[a].exists)
          /\ pc[i] = "fetch" => (period[i] = "2d" <=> files[a].exists)
          /\ pc[i] = "reconcile" =>
                /\ Len(df_new[i]) = Cardinality(want)
                /\ \A k \in want : \E m \in 1..Len(df_new[i]) :
                      df_new[i][m] = [Date |-> prov[a][k].ts.day, Close |-> prov[a][k].Close]

\* C7's case: the two-day request for an asset that has a file holding less than
\* the provider does, while another asset has no file.
C7_Witness ==
    \E i \in Procs, b \in Names :
       /\ pc[i] = "reconcile"
       /\ period[i] = "2d"
       /\ files[Asset(i)].exists
       /\ Len(df_new[i]) < Len(prov[Asset(i)])
       /\ df_new[i] # <<>>
       /\ ~files[b].exists

\* C8: a failure while asset k is processed ends the run there: the assets
\* before k have completed (each has its file and its line, an up-to-date one
\* leaving the file as it was, a written one holding the old rows and then the
\* new ones), the assets after k are as they were before the run, nothing is
\* retried and no asset is reached unless every asset before it completed.
C8_FailurePropagation ==
    \A i \in Procs :
       /\ pc[i] \in {"select", "fetch", "reconcile", "write", "aborted"} => Len(out[i]) = idx[i] - 1
       /\ pc[i] = "done" => Len(out[i]) = Len(TICKERS)
       /\ pc[i] = "aborted" =>
             \A j \in 1..Len(TICKERS) :
                LET a == TICKERS[j]
                IN /\ j > idx[i] => files[a] = snap[i][a]
                   /\ j < idx[i] =>
                         /\ files[a].exists
                         /\ out[i][j].name = a
                         /\ out[i][j].kind = "up-to-date" => files[a] = snap[i][a]
                         /\ out[i][j].kind = "wrote" =>
                               /\ Len(Rows(a)) = out[i][j].total
                               /\ out[i][j].total = Len(snap[i][a].rows) + out[i][j].new
                               /\ SubSeq(Rows(a), 1, Len(snap[i][a].rows)) = snap[i][a].rows

\* C8's case: the run failed at the second asset after it rewrote the first.
C8_Witness ==
    \E i \in Procs :
       /\ pc[i] = "aborted"
       /\ idx[i] = 2
       /\ files[TICKERS[1]] # snap[i][TICKERS[1]]
       /\ snap[i][TICKERS[1]].exists

\* C9: wherever a run aborts, the file of the asset it was processing and the
\* files of the assets after it are absent, as they were before the run, or the
\* complete merged history; never a part of it.
C9_NoPartialState ==
    \A i \in Procs :
       pc[i] = "aborted" =>
          \A j \in 1..Len(TICKERS) :
             LET a == TICKERS[j]
             IN j >= idx[i] =>
                   \/ ~files[a].exists
                   \/ files[a] = snap[i][a]
                   \/ (j = idx[i] /\ Rows(a) = to_csv(combined[i]))

\* C10: a completed write removes a row that was in the file only when another
\* instance wrote the file between this instance's read and its write; a write
\* that follows its own read with no write in between keeps every row.
C10_LostOnlyWhenRaced == lost # "sequential"

\* C10's case: both instances have finished and one of them overwrote a row the
\* other had written.
C10_LostUpdate ==
    /\ lost = "raced"
    /\ \A i \in Procs : pc[i] = "done"

====
